---- MODULE Spec2Model ----
(***************************************************************************)
(* ezh.h: three writers that copy the object representation of fundamental *)
(* values, in argument order, into an output file stream (writeToFile),    *)
(* raw memory (writeToRawMemory) or a std::vector<char> at an offset       *)
(* (writeToBuffer).                                                        *)
(*                                                                         *)
(* Memory is one flat, byte-addressed heap.  Address 0 is the null         *)
(* pointer.  The vector's storage is the block [data, data + size); the    *)
(* cells around it are other objects of the caller.  size_t and pointers   *)
(* share one width, SizeBits, and every size_t sum is taken modulo         *)
(* 2^SizeBits.  Values are kept as their bit patterns and laid out least   *)
(* significant byte first (the native layout of the usual hosts).          *)
(***************************************************************************)
EXTENDS Integers, Sequences, FiniteSets, TLC

VARIABLES
    mem,       \* the heap: address -> byte
    buffer,    \* the std::vector<char>: [data, size]
    cursor,    \* the offset the caller threads from one writeToBuffer to the next
    dst,       \* the pointer the caller threads from one writeToRawMemory to the next
    chain,     \* the values written so far by the current run of threaded calls
    probed,    \* the caller has made a call outside the threaded run
    file,      \* the std::ofstream: [is_open, failbit, badbit]
    disk,      \* the bytes the file holds
    space,     \* bytes the device still accepts
    inst,      \* the last overload resolution: [fn, types, accepted]
    call,      \* the last call: [op, at, args, result, ret, touched]
    memPre,    \* the heap before the last call
    diskPre    \* the file's bytes before the last call

vars == <<mem, buffer, cursor, dst, chain, probed, file, disk, space, inst,
          call, memPre, diskPre>>

streamVars == <<file, disk, space, diskPre>>

----------------------------------------------------------------------------
(* Bounds of the model *)

BufLen  == 10   \* buffer.size()
Slack   == 2    \* how far past buffer.size() an offset is tried
MaxArgs == 2    \* length of a parameter pack
DataBase == 4   \* address of buffer.data()
TailLen == 2    \* heap cells modelled after the vector's storage
MaxWrap == 4    \* offsets 2^SizeBits - 1 .. 2^SizeBits - MaxWrap are tried
DiskCap == 6    \* bytes the device accepts before it is full

----------------------------------------------------------------------------
(* size_t and pointers *)

SizeBits == 16
SizeModulus == 2 ^ SizeBits

\* size_t + size_t
AddSz(a, b) == (a + b) % SizeModulus

NULL == 0
MemTop == DataBase + BufLen + TailLen
Addresses == 0 .. (MemTop - 1)

----------------------------------------------------------------------------
(* Values and their object representation *)

Values ==
    { [type |-> "char",  bits |-> 65],            \* 'A'
      [type |-> "int",   bits |-> 42],            \* 42
      [type |-> "float", bits |-> 1078523331] }   \* 3.14f = 0x4048F5C3

\* sizeof(args)
SizeOf(type) ==
    CASE type = "char"  -> 1
      [] type = "int"   -> 4
      [] type = "float" -> 4

\* reinterpret_cast<const char*>(&args): the sizeof(args) bytes of the object
ObjectBytes(v) ==
    [i \in 1 .. SizeOf(v.type) |-> (v.bits \div (256 ^ (i - 1))) % 256]

\* the parameter packs of at least `least` values
ArgPacks(least) == UNION { [1 .. n -> Values] : n \in least .. MaxArgs }

\* the packs of one value
SinglePacks == { <<v>> : v \in Values }

\* (sizeof(args) + ...)
RECURSIVE RequiredSize(_)
RequiredSize(args) ==
    IF args = <<>> THEN 0
    ELSE AddSz(SizeOf(Head(args).type), RequiredSize(Tail(args)))

----------------------------------------------------------------------------
(* std::memcpy and the raw-memory writer *)

\* the addresses ptr, ptr + 1, ..., ptr + n - 1
Range(ptr, n) == { (ptr + i) % SizeModulus : i \in 0 .. (n - 1) }

\* a copy that runs one byte past the object and leaves a zero there
MemCpy_Overrun(m, ptr, bytes) ==
    [a \in DOMAIN m |->
        IF (a - ptr) % SizeModulus < Len(bytes)
        THEN bytes[((a - ptr) % SizeModulus) + 1]
        ELSE IF (a - ptr) % SizeModulus = Len(bytes) THEN 0
        ELSE m[a]]

\* std::memcpy(ptr, &args, sizeof(args)) on the heap m
MemCpy(m, ptr, bytes) ==
    [a \in DOMAIN m |->
        IF (a - ptr) % SizeModulus < Len(bytes)
        THEN bytes[((a - ptr) % SizeModulus) + 1]
        ELSE m[a]]

\* a cursor that is never advanced
Advance_Stuck(ptr, v) == ptr

\* ptr += sizeof(args)
Advance(ptr, v) == (ptr + SizeOf(v.type)) % SizeModulus

\* ((std::memcpy(ptr, &args, sizeof(args)), ptr += sizeof(args)), ...)
RECURSIVE CopyPack(_, _, _)
CopyPack(m, ptr, args) ==
    IF args = <<>> THEN [mem |-> m, ptr |-> ptr]
    ELSE CopyPack(MemCpy(m, ptr, ObjectBytes(Head(args))),
                  Advance(ptr, Head(args)), Tail(args))

Returned == "returned"
NullBuffer == "Null buffer pointer"
BufferTooSmall == "Buffer too small for data"
StreamNotOpen == "File stream is not open"
Crashed == "crashed"
NoValue == -1

\* a writer without the null check
IsNullPointer_Never(ptr) == FALSE

\* if (!buffer)
IsNullPointer(ptr) == ptr = NULL

\* writeToRawMemory(buffer, args...) on the heap m
writeToRawMemory(m, ptr0, args) ==
    IF IsNullPointer(ptr0)
    THEN [result |-> NullBuffer, ret |-> NoValue, mem |-> m, touched |-> {}]
    ELSE LET r == CopyPack(m, ptr0, args)
         IN [result |-> Returned, ret |-> r.ptr, mem |-> r.mem,
             touched |-> Range(ptr0, RequiredSize(args))]

----------------------------------------------------------------------------
(* The buffer writer *)

\* a capacity check that also refuses the exact fit
TooSmall_OffByOne(offset, requiredSize, size) == AddSz(offset, requiredSize) >= size

\* offset + requiredSize > buffer.size()
TooSmall(offset, requiredSize, size) == AddSz(offset, requiredSize) > size

\* a destination that ignores the offset
BufferPtr_NoOffset(buf, offset) == buf.data

\* buffer.data() + offset
BufferPtr(buf, offset) == (buf.data + offset) % SizeModulus

\* a return of the offset the call was given
NewOffset_Stale(offset, requiredSize) == offset

\* return offset + requiredSize
NewOffset(offset, requiredSize) == AddSz(offset, requiredSize)

Storage(buf) == buf.data .. (buf.data + buf.size - 1)

\* The copy stays inside the vector's storage.  When it does not, the write
\* through buffer.data() + offset is undefined: the build either lets the
\* bytes land where the pointer leads or the process dies.
Outcomes(buf, offset, args) ==
    IF TooSmall(offset, RequiredSize(args), buf.size)
       \/ Range(BufferPtr(buf, offset), RequiredSize(args)) \subseteq Storage(buf)
    THEN {"defined"}
    ELSE {"lands", "faults"}

\* writeToBuffer(buffer, offset, args...) on the heap m
writeToBuffer(m, buf, offset, args, outcome) ==
    LET requiredSize == RequiredSize(args) IN
    IF TooSmall(offset, requiredSize, buf.size)
    THEN [result |-> BufferTooSmall, ret |-> NoValue, mem |-> m, touched |-> {}]
    ELSE IF outcome = "faults"
    THEN [result |-> Crashed, ret |-> NoValue, mem |-> m, touched |-> {}]
    ELSE LET r == writeToRawMemory(m, BufferPtr(buf, offset), args)
         IN IF r.result # Returned THEN r
            ELSE [r EXCEPT !.ret = NewOffset(offset, requiredSize)]

----------------------------------------------------------------------------
(* The state after construction *)

InitMem == [a \in Addresses |-> IF a \in DataBase .. (DataBase + BufLen - 1)
                                THEN 0 ELSE 255]

NoCall == [op |-> "none", at |-> 0, args |-> <<>>, result |-> Returned,
           ret |-> NoValue, touched |-> {}]

Init ==
    /\ mem = InitMem
    /\ buffer = [data |-> DataBase, size |-> BufLen]
    /\ cursor = 0
    /\ dst = DataBase
    /\ chain = <<>>
    /\ probed = FALSE
    /\ file = [is_open |-> FALSE, failbit |-> FALSE, badbit |-> FALSE]
    /\ disk = <<>>
    /\ space = DiskCap
    /\ inst = [fn |-> "none", types |-> <<>>, accepted |-> FALSE]
    /\ call = NoCall
    /\ memPre = InitMem
    /\ diskPre = <<>>

----------------------------------------------------------------------------
(* Calls of the buffer writer *)

BufferCall(offset, args, r) ==
    [op |-> "writeToBuffer", at |-> offset, args |-> args,
     result |-> r.result, ret |-> r.ret, touched |-> r.touched]

\* offset = writeToBuffer(buffer, offset, args...)
ThreadedBufferWrite ==
    /\ ~probed
    /\ \E args \in ArgPacks(1) :
       \E outcome \in Outcomes(buffer, cursor, args) :
       \E r \in {writeToBuffer(mem, buffer, cursor, args, outcome)} :
          /\ mem' = r.mem
          /\ memPre' = mem
          /\ call' = BufferCall(cursor, args, r)
          /\ cursor' = IF r.result = Returned THEN r.ret ELSE cursor
          /\ chain' = IF r.result = Returned THEN chain \o args ELSE chain
    /\ UNCHANGED <<buffer, dst, probed, inst>>
    /\ UNCHANGED streamVars

\* offsets that are byte indices of the buffer, or lie a little past its end
IndexOffsets == 0 .. (BufLen + Slack)

\* offsets at the top of size_t's range
WrapOffsets == { SizeModulus - k : k \in 1 .. MaxWrap }

\* writeToBuffer(buffer, offset, arg) with an offset that is not the threaded one
BufferWriteAt(offsets) ==
    /\ ~probed
    /\ \E offset \in offsets, args \in SinglePacks :
       \E outcome \in Outcomes(buffer, offset, args) :
       \E r \in {writeToBuffer(mem, buffer, offset, args, outcome)} :
          /\ mem' = r.mem
          /\ memPre' = mem
          /\ call' = BufferCall(offset, args, r)
    /\ probed' = TRUE
    /\ UNCHANGED <<buffer, cursor, dst, chain, inst>>
    /\ UNCHANGED streamVars

\* std::vector<char> buffer(n); size_t offset = 0;
NewBuffer ==
    /\ probed \/ chain # <<>>
    /\ mem' = InitMem
    /\ memPre' = InitMem
    /\ cursor' = 0
    /\ dst' = DataBase
    /\ chain' = <<>>
    /\ probed' = FALSE
    /\ call' = NoCall
    /\ UNCHANGED <<buffer, inst>>
    /\ UNCHANGED streamVars

\* the caller passes byte indices, as the @param offset asks
BufferWrite == BufferWriteAt(IndexOffsets)

Next == ThreadedBufferWrite \/ BufferWrite \/ NewBuffer

Spec == Init /\ [][Next]_vars

\* the caller passes any size_t
BufferWriteAnyOffset == BufferWriteAt(IndexOffsets \cup WrapOffsets)

NextAnyOffset == ThreadedBufferWrite \/ BufferWriteAnyOffset \/ NewBuffer

SpecAnyOffset == Init /\ [][NextAnyOffset]_vars

----------------------------------------------------------------------------
(* Calls of the raw-memory writer.  The caller owns the heap cells above the *)
(* null address and passes a destination with room for the pack, or null.   *)

RawCall(ptr, args, r) ==
    [op |-> "writeToRawMemory", at |-> ptr, args |-> args,
     result |-> r.result, ret |-> r.ret, touched |-> r.touched]

HasRoom(ptr, args) == ptr + RequiredSize(args) <= MemTop

\* ptr = writeToRawMemory(ptr, args...)
ThreadedRawWrite ==
    /\ ~probed
    /\ \E args \in ArgPacks(0) :
       /\ HasRoom(dst, args)
       /\ \E r \in {writeToRawMemory(mem, dst, args)} :
          /\ mem' = r.mem
          /\ memPre' = mem
          /\ call' = RawCall(dst, args, r)
          /\ dst' = IF r.result = Returned THEN r.ret ELSE dst
          /\ chain' = IF r.result = Returned THEN chain \o args ELSE chain
    /\ UNCHANGED <<buffer, cursor, probed, inst>>
    /\ UNCHANGED streamVars

\* writeToRawMemory(ptr, arg) or writeToRawMemory(ptr) with any destination
RawWrite ==
    /\ ~probed
    /\ \E ptr \in Addresses, args \in SinglePacks \cup {<<>>} :
       /\ IsNullPointer(ptr) \/ HasRoom(ptr, args)
       /\ \E r \in {writeToRawMemory(mem, ptr, args)} :
          /\ mem' = r.mem
          /\ memPre' = mem
          /\ call' = RawCall(ptr, args, r)
    /\ probed' = TRUE
    /\ UNCHANGED <<buffer, cursor, dst, chain, inst>>
    /\ UNCHANGED streamVars

NextRaw == ThreadedRawWrite \/ RawWrite \/ NewBuffer

SpecRaw == Init /\ [][NextRaw]_vars

----------------------------------------------------------------------------
(* The output file stream *)

\* !file: basic_ios::fail()
StreamFailed(f) == f.failbit \/ f.badbit

\* file.write(reinterpret_cast<const char*>(&args), sizeof(args)): the sentry
\* refuses a stream that is not good; a stream buffer that is not open takes
\* no byte and a full device takes the bytes it has room for, and both set
\* badbit.
StreamWrite(s, bytes) ==
    IF StreamFailed(s.file)
    THEN [s EXCEPT !.file.failbit = TRUE]
    ELSE IF ~s.file.is_open
    THEN [s EXCEPT !.file.badbit = TRUE]
    ELSE IF Len(bytes) <= s.space
    THEN [s EXCEPT !.disk = @ \o bytes, !.space = @ - Len(bytes)]
    ELSE [s EXCEPT !.disk = @ \o SubSeq(bytes, 1, s.space), !.space = 0,
                   !.file.badbit = TRUE]

\* ((file.write(reinterpret_cast<const char*>(&args), sizeof(args))), ...)
RECURSIVE WritePack(_, _)
WritePack(s, args) ==
    IF args = <<>> THEN s
    ELSE WritePack(StreamWrite(s, ObjectBytes(Head(args))), Tail(args))

\* writeToFile(file, args...)
writeToFile(s, args) ==
    IF StreamFailed(s.file)
    THEN [result |-> StreamNotOpen, stream |-> s]
    ELSE [result |-> Returned, stream |-> WritePack(s, args)]

CallWriteToFile ==
    /\ \E args \in ArgPacks(1) :
       \E r \in {writeToFile([file |-> file, disk |-> disk, space |-> space], args)} :
          /\ file' = r.stream.file
          /\ disk' = r.stream.disk
          /\ space' = r.stream.space
          /\ diskPre' = disk
          /\ call' = [op |-> "writeToFile", at |-> 0, args |-> args,
                      result |-> r.result, ret |-> NoValue, touched |-> {}]
    /\ UNCHANGED <<mem, buffer, cursor, dst, chain, probed, memPre, inst>>

\* std::ofstream file(path, std::ios::binary | std::ios::out), file.open(...):
\* opening an open stream fails; a successful open truncates the file and
\* clears the state, a failed one sets failbit
OpenFile ==
    /\ \E opened \in BOOLEAN :
          IF opened /\ ~file.is_open
          THEN /\ file' = [is_open |-> TRUE, failbit |-> FALSE, badbit |-> FALSE]
               /\ disk' = <<>>
               /\ space' = DiskCap
          ELSE /\ file' = [file EXCEPT !.failbit = TRUE]
               /\ UNCHANGED <<disk, space>>
    /\ diskPre' = disk'
    /\ call' = NoCall
    /\ UNCHANGED <<mem, buffer, cursor, dst, chain, probed, memPre, inst>>

\* file.close(): closing a stream that is not open sets failbit
CloseFile ==
    /\ file' = IF file.is_open THEN [file EXCEPT !.is_open = FALSE]
               ELSE [file EXCEPT !.failbit = TRUE]
    /\ diskPre' = disk
    /\ call' = NoCall
    /\ UNCHANGED <<disk, space>>
    /\ UNCHANGED <<mem, buffer, cursor, dst, chain, probed, memPre, inst>>

NextStream == CallWriteToFile \/ OpenFile \/ CloseFile

SpecStream == Init /\ [][NextStream]_vars

----------------------------------------------------------------------------
(* The constraint on the parameter pack *)

Kinds == {"int", "unsigned", "float", "bool", "char", "nullptr_t",
          "pointer", "class", "array", "enum"}

\* std::is_fundamental_v<Args>: the arithmetic types, void and std::nullptr_t
is_fundamental(kind) ==
    kind \in {"int", "unsigned", "float", "bool", "char", "nullptr_t"}

\* std::is_pointer_v<Args>
is_pointer(kind) == kind = "pointer"

\* std::enable_if<(std::is_fundamental_v<Args> && ... && !std::is_pointer_v<Args>), R>
EnableIf(types) ==
    \A i \in DOMAIN types : is_fundamental(types[i]) /\ ~is_pointer(types[i])

Writers == {"writeToFile", "writeToRawMemory", "writeToBuffer"}

\* overload resolution of a call writer(dest, args...) with arguments of the given kinds
Resolve ==
    /\ \E fn \in Writers, n \in 1 .. MaxArgs :
       \E types \in [1 .. n -> Kinds] :
          inst' = [fn |-> fn, types |-> types, accepted |-> EnableIf(types)]
    /\ UNCHANGED <<mem, buffer, cursor, dst, chain, probed, memPre, call>>
    /\ UNCHANGED streamVars

NextTypes == Resolve

SpecTypes == Init /\ [][NextTypes]_vars

----------------------------------------------------------------------------
(* Reading the heap back *)

\* the value of the given type whose object representation is bytes
FromBytes(type, bytes) ==
    LET RECURSIVE Sum(_)
        Sum(i) == IF i > Len(bytes) THEN 0
                  ELSE bytes[i] * (256 ^ (i - 1)) + Sum(i + 1)
    IN [type |-> type, bits |-> Sum(1)]

\* the pack's bytes, back to back
RECURSIVE Concat(_)
Concat(args) ==
    IF args = <<>> THEN <<>>
    ELSE ObjectBytes(Head(args)) \o Concat(Tail(args))

TypesOf(args) == [i \in DOMAIN args |-> args[i].type]

BytesAt(m, addr, n) == [i \in 1 .. n |-> m[addr + i - 1]]

\* the values of the given types read back to back from addr
RECURSIVE ReadValues(_, _, _)
ReadValues(m, addr, types) ==
    IF types = <<>> THEN <<>>
    ELSE <<FromBytes(Head(types), BytesAt(m, addr, SizeOf(Head(types))))>>
         \o ReadValues(m, addr + SizeOf(Head(types)), Tail(types))

\* sum of sizeof of the pack's values, as a number
RECURSIVE TotalSize(_)
TotalSize(args) ==
    IF args = <<>> THEN 0 ELSE SizeOf(Head(args).type) + TotalSize(Tail(args))

LastBuffer == call.op = "writeToBuffer"
LastRaw == call.op = "writeToRawMemory"
LastFile == call.op = "writeToFile"
Required == TotalSize(call.args)
TheVector == [data |-> DataBase, size |-> BufLen]

----------------------------------------------------------------------------
(* Claims *)

\* C1: a writeToBuffer call whose pack needs exactly buffer.size() - offset
\* bytes returns; a call with offset + required > buffer.size() throws
\* "Buffer too small for data" and leaves every byte and the vector's size
\* as they were.
C1_CapacityBoundary ==
    LastBuffer =>
        /\ (call.at <= buffer.size /\ Required = buffer.size - call.at)
              => call.result = Returned
        /\ (call.at + Required > buffer.size)
              => /\ call.result = BufferTooSmall
                 /\ mem = memPre
                 /\ buffer = TheVector

\* a pack one byte too long for a buffer that already holds data is refused
C1_Witness ==
    /\ LastBuffer
    /\ call.at + Required = buffer.size + 1
    /\ call.result = BufferTooSmall
    /\ \E a \in Storage(buffer) : memPre[a] # 0

\* C2: every writeToBuffer call that returns gives offset + required, which
\* is at most buffer.size(), and the bytes from offset on are the values'
\* object representations back to back, in argument order: reading them
\* back with the same types gives the values.
C2_ReturnedOffsetAndBytes ==
    (LastBuffer /\ call.result = Returned) =>
        /\ call.ret = call.at + Required
        /\ call.ret <= buffer.size
        /\ BytesAt(mem, buffer.data + call.at, Required) = Concat(call.args)
        /\ ReadValues(mem, buffer.data + call.at, TypesOf(call.args)) = call.args

\* two values of different types written past the start of the buffer
C2_Witness ==
    /\ LastBuffer
    /\ call.result = Returned
    /\ call.at > 0
    /\ Len(call.args) = 2
    /\ call.args[1].type = "float"
    /\ call.args[2].type = "char"

\* C3: a writeToBuffer call that returns changes no byte outside
\* [offset, offset + required) of the vector's storage and leaves the
\* vector's size alone.
C3_OnlyTheRangeChanges ==
    (LastBuffer /\ call.result = Returned) =>
        /\ \A a \in Addresses :
              a \notin (buffer.data + call.at) .. (buffer.data + call.at + Required - 1)
                 => mem[a] = memPre[a]
        /\ DOMAIN mem = Addresses
        /\ buffer = TheVector

\* a write into the middle of earlier data: written bytes on both sides
C3_Witness ==
    /\ LastBuffer
    /\ call.result = Returned
    /\ mem # memPre
    /\ \E a \in Storage(buffer) : a < buffer.data + call.at /\ memPre[a] # 0
    /\ \E a \in Storage(buffer) : a >= buffer.data + call.at + Required /\ memPre[a] # 0

\* C4: for a non-null destination writeToRawMemory returns destination +
\* sum of sizeof, and the i-th value's bytes start at destination + the sizes
\* of the values before it; a run of calls, each starting at the pointer the
\* last returned, lays the values down back to back.
C4_RawLayoutAndReturn ==
    /\ (LastRaw /\ call.at # NULL) =>
          /\ call.result = Returned
          /\ call.ret = call.at + Required
          /\ \A i \in DOMAIN call.args :
                BytesAt(mem, call.at + TotalSize(SubSeq(call.args, 1, i - 1)),
                        SizeOf(call.args[i].type)) = ObjectBytes(call.args[i])
    /\ (LastRaw /\ ~probed) =>
          /\ dst = DataBase + TotalSize(chain)
          /\ BytesAt(mem, DataBase, TotalSize(chain)) = Concat(chain)
          /\ ReadValues(mem, DataBase, TypesOf(chain)) = chain

\* a two-value call that continues an earlier one
C4_Witness ==
    /\ LastRaw
    /\ ~probed
    /\ call.at > DataBase
    /\ call.result = Returned
    /\ Len(call.args) = 2
    /\ call.args[1].type = "char"
    /\ call.args[2].type = "int"
    /\ Len(chain) > 2

\* C5: writeToRawMemory with a null destination throws "Null buffer
\* pointer": no byte of the heap is written and no pointer is returned.
C5_NullDestinationRejected ==
    (LastRaw /\ call.at = NULL) =>
        /\ call.result = NullBuffer
        /\ call.ret = NoValue
        /\ call.touched = {}
        /\ mem = memPre

\* a null destination with a value to write, on a heap that holds data
C5_Witness ==
    /\ LastRaw
    /\ call.at = NULL
    /\ call.args # <<>>
    /\ call.result = NullBuffer
    /\ memPre # InitMem

\* C6: writeToFile on a stream that is not open throws "File stream is not
\* open" and appends no byte.
C6_ClosedStreamRejected ==
    (LastFile /\ ~file.is_open) =>
        /\ call.result = StreamNotOpen
        /\ disk = diskPre

\* C7: whenever writeToFile returns, the file has grown by exactly the pack's
\* bytes, in argument order, each value whole.
C7_ReturnedMeansAllWritten ==
    (LastFile /\ call.result = Returned) => disk = diskPre \o Concat(call.args)

C9_ThreadedOffsets ==
    ~probed =>
        /\ cursor = TotalSize(chain)
        /\ cursor <= buffer.size
        /\ ReadValues(mem, buffer.data, TypesOf(chain)) = chain
        /\ (LastBuffer /\ call.result = Returned) =>
              /\ call.ret > call.at
              /\ call.ret = cursor
              /\ call.at = TotalSize(chain) - Required
        /\ (LastBuffer /\ call.at + Required > buffer.size) =>
              /\ call.result = BufferTooSmall
              /\ cursor = call.at
              /\ mem = memPre
        /\ (LastBuffer /\ call.at + Required <= buffer.size) =>
              call.result = Returned

\* 42 then 3.14f fill bytes 0..7 of the 10-byte buffer; 4 more bytes at offset 8 are refused
C9_Witness ==
    /\ ~probed
    /\ buffer.size = 10
    /\ chain = << [type |-> "int", bits |-> 42], [type |-> "float", bits |-> 1078523331] >>
    /\ cursor = 8
    /\ LastBuffer
    /\ call.at = 8
    /\ Required = 4
    /\ call.result = BufferTooSmall

\* C10: whatever size_t value the offset has, writeToBuffer writes no byte
\* outside the vector's storage: a call whose offset + required exceeds
\* buffer.size() throws "Buffer too small for data".
C10_NoWriteOutsideTheBuffer ==
    LastBuffer =>
        /\ call.touched \subseteq Storage(buffer)
        /\ (call.at + Required > buffer.size) => call.result = BufferTooSmall

====
